---- MODULE Spec2Model ----
(***************************************************************************)
(* pypig: command line client of a private pypiserver                      *)
(* (src/pypig/pypig.py).  One run of main() is modelled: credential        *)
(* resolution, URL composition, the listing fetch with filename parsing    *)
(* and filtering, and the list / download / remove commands.               *)
(*                                                                         *)
(* A Python str is a sequence of code points (integers), so that           *)
(* splitting, reversing, prefix / suffix / substring tests and string      *)
(* ordering are computed the way the interpreter computes them.            *)
(***************************************************************************)
EXTENDS Integers, Sequences, FiniteSets, TLC

VARIABLES
    pc,             \* function the run is in (where it is, or where it ended)
    argv,           \* Namespace as parse_args() returned it (the command line)
    args,           \* Namespace as main() holds it (mutated by the config merge)
    config_file,    \* ~/.config/pypig/auth.json: [exists, json]
    file_read,      \* TRUE once config_file was opened and loaded
    response,       \* lines of the listing (GET /packages, or the debug file)
    packages,       \* list returned by get_filtered_packages
    sys_calls,      \* pip invocations made so far, in order
    requests_made,  \* HTTP requests made so far, in order
    stdout,         \* what was printed, in order
    exc,            \* uncaught exception that ended the run ("" if none)
    exit_status     \* <<>> while running, <<code>> once the process ended

vars == <<pc, argv, args, config_file, file_read, response, packages,
          sys_calls, requests_made, stdout, exc, exit_status>>

----------------------------------------------------------------------------
(* Bounds of the model *)

\* longest filename stem of the exhaustive parser inputs
MaxStem == 11
\* longest listing of the filter inputs
MaxLines == 2

----------------------------------------------------------------------------
(* Code points and string literals *)

\* "-"
Dash == 45
\* "."
Dot == 46

\* Python's None; -1 is no code point, so no str equals it
None == << -1 >>

\* ".whl"
ext_whl == <<46, 119, 104, 108>>
\* ".tar.gz"
ext_targz == <<46, 116, 97, 114, 46, 103, 122>>
\* "wheel"
s_wheel == <<119, 104, 101, 101, 108>>
\* "sdist"
s_sdist == <<115, 100, 105, 115, 116>>
\* "py3"
s_py3 == <<112, 121, 51>>
\* "none"
s_none == <<110, 111, 110, 101>>
\* "any"
s_any == <<97, 110, 121>>
\* "cp"
s_cp == <<99, 112>>
\* "None" (str(None), as an f-string renders an unset field)
s_None == <<78, 111, 110, 101>>
\* ":"
s_colon == <<58>>
\* "@"
s_at == <<64>>
\* "https://"
URL_PREFIX == <<104, 116, 116, 112, 115, 58, 47, 47>>
\* "linux"
s_linux == <<108, 105, 110, 117, 120>>
\* "macos"
s_macos == <<109, 97, 99, 111, 115>>
\* "pytket"
s_pytket == <<112, 121, 116, 107, 101, 116>>
\* "pytket-qiskit"
s_pytket_qiskit == <<112, 121, 116, 107, 101, 116, 45, 113, 105, 115, 107, 105, 116>>
\* "0.5.2"
v_052 == <<48, 46, 53, 46, 50>>
\* "0.5.3"
v_053 == <<48, 46, 53, 46, 51>>
\* "0.5.4"
v_054 == <<48, 46, 53, 46, 52>>
\* "3.8"
pyver_38 == <<51, 46, 56>>
\* "3"
pyver_3 == <<51>>
\* "3.8.1"
pyver_381 == <<51, 46, 56, 46, 49>>
\* "cp38"
s_cp38 == <<99, 112, 51, 56>>
\* "https://h/"
idx_https == <<104, 116, 116, 112, 115, 58, 47, 47, 104, 47>>
\* "http://h/"
idx_http == <<104, 116, 116, 112, 58, 47, 47, 104, 47>>
\* "https://f/"
idx_file == <<104, 116, 116, 112, 115, 58, 47, 47, 102, 47>>
\* "u"
s_u == <<117>>
\* "p"
s_p == <<112>>
\* "fu"
s_fu == <<102, 117>>
\* "fp"
s_fp == <<102, 112>>
\* "pytket-0.5.3-cp38-none-linux_x86_64.whl"
f_wheel_linux == <<112, 121, 116, 107, 101, 116, 45, 48, 46, 53, 46, 51, 45, 99, 112, 51, 56, 45, 110, 111, 110, 101, 45, 108, 105, 110, 117, 120, 95, 120, 56, 54, 95, 54, 52, 46, 119, 104, 108>>
\* "pytket-0.5.3.tar.gz"
f_sdist == <<112, 121, 116, 107, 101, 116, 45, 48, 46, 53, 46, 51, 46, 116, 97, 114, 46, 103, 122>>
\* "pytket-qiskit-0.5.5-cp37-cp37m-macosx_10_14.whl"
f_wheel_qiskit == <<112, 121, 116, 107, 101, 116, 45, 113, 105, 115, 107, 105, 116, 45, 48, 46, 53, 46, 53, 45, 99, 112, 51, 55, 45, 99, 112, 51, 55, 109, 45, 109, 97, 99, 111, 115, 120, 95, 49, 48, 95, 49, 52, 46, 119, 104, 108>>
\* "pytket-0.5.2-py3-none-any.whl"
f_wheel_pure == <<112, 121, 116, 107, 101, 116, 45, 48, 46, 53, 46, 50, 45, 112, 121, 51, 45, 110, 111, 110, 101, 45, 97, 110, 121, 46, 119, 104, 108>>
\* "index.html"
f_other == <<105, 110, 100, 101, 120, 46, 104, 116, 109, 108>>
\* "qiskit-0.5.3.whl"
f_bad_wheel == <<113, 105, 115, 107, 105, 116, 45, 48, 46, 53, 46, 51, 46, 119, 104, 108>>
\* "qiskit.tar.gz"
f_bad_sdist == <<113, 105, 115, 107, 105, 116, 46, 116, 97, 114, 46, 103, 122>>
\* "-0.5.3.tar.gz"
f_noname_sdist == <<45, 48, 46, 53, 46, 51, 46, 116, 97, 114, 46, 103, 122>>
\* "/packages"
s_packages == <<47, 112, 97, 99, 107, 97, 103, 101, 115>>
\* "listing.txt"
f_debug == <<108, 105, 115, 116, 105, 110, 103, 46, 116, 120, 116>>

----------------------------------------------------------------------------
(* str operations *)

\* s[::-1]
RECURSIVE Reverse(_)
Reverse(s) ==
    IF s = <<>> THEN <<>> ELSE Append(Reverse(Tail(s)), Head(s))

\* s.find(c) for a one-character c, 1-based; 0 when c does not occur
RECURSIVE Find(_, _, _)
Find(s, c, from) ==
    IF from > Len(s) THEN 0
    ELSE IF s[from] = c THEN from
    ELSE Find(s, c, from + 1)

\* s.split(sep, maxsplit) for a one-character sep; maxsplit = -1 is no limit
RECURSIVE Split(_, _, _)
Split(s, sep, maxsplit) ==
    LET i == Find(s, sep, 1) IN
    IF maxsplit = 0 \/ i = 0 THEN << s >>
    ELSE << SubSeq(s, 1, i - 1) >>
             \o Split(SubSeq(s, i + 1, Len(s)), sep, maxsplit - 1)

\* s.startswith(p)
StartsWith(s, p) ==
    Len(p) <= Len(s) /\ SubSeq(s, 1, Len(p)) = p

\* s.endswith(p)
EndsWith(s, p) ==
    Len(p) <= Len(s) /\ SubSeq(s, Len(s) - Len(p) + 1, Len(s)) = p

\* p in s
RECURSIVE Contains(_, _)
Contains(s, p) ==
    IF Len(p) > Len(s) THEN FALSE
    ELSE IF StartsWith(s, p) THEN TRUE
    ELSE Contains(Tail(s), p)

\* a <= b on str: code point order at the first difference, else by length
RECURSIVE StrLeq(_, _)
StrLeq(a, b) ==
    IF a = <<>> THEN TRUE
    ELSE IF b = <<>> THEN FALSE
    ELSE IF Head(a) # Head(b) THEN Head(a) < Head(b)
    ELSE StrLeq(Tail(a), Tail(b))

\* truth value of an optional str or list: None and the empty value are false
Truthy(x) == x # None /\ x # <<>>

\* map of s[::-1] over a tuple of str
MapReverse(t) == [i \in 1..Len(t) |-> Reverse(t[i])]

----------------------------------------------------------------------------
(* Package records and the two filename grammars *)

Package(name, version, python_tag, abi_tag, platform, filetype) ==
    [name |-> name, version |-> version, platform |-> platform,
     python |-> python_tag, abi |-> abi_tag, type |-> filetype]

\* value of a constructor call that raised: no package, the exception's type
Raise(e) == [raised |-> e, pkg |-> Package(<<>>, <<>>, <<>>, <<>>, <<>>, <<>>)]
Return(p) == [raised |-> "", pkg |-> p]

\* split("-", maxsplit=4) on the filename as it stands: counted from the left
WheelPackageLeftSplit(filename) ==
    LET tags == Split(filename, Dash, 4) IN
    IF Len(tags) # 5 THEN Raise("TypeError")
    ELSE Return(Package(tags[1], tags[2], tags[3], tags[4], tags[5], s_wheel))

\* WheelPackage(filename): reversed split on "-" with maxsplit=4; Package
\* takes exactly five tags plus "wheel", any other count is a TypeError
WheelPackage(filename) ==
    LET tags == Reverse(MapReverse(Split(Reverse(filename), Dash, 4))) IN
    IF Len(tags) # 5 THEN Raise("TypeError")
    ELSE Return(Package(tags[1], tags[2], tags[3], tags[4], tags[5], s_wheel))

\* split("-", maxsplit=1) on the filename as it stands: counted from the left
SourcePackageLeftSplit(filename) ==
    LET tags == Split(filename, Dash, 1) IN
    IF Len(tags) < 2 THEN Raise("IndexError")
    ELSE Return(Package(tags[1], tags[2], s_py3, s_none, s_any, s_sdist))

\* SourcePackage(filename): reversed split on "-" with maxsplit=1; tags[1]
\* of a one-element list is an IndexError
SourcePackage(filename) ==
    LET tags == Reverse(MapReverse(Split(Reverse(filename), Dash, 1))) IN
    IF Len(tags) < 2 THEN Raise("IndexError")
    ELSE Return(Package(tags[1], tags[2], s_py3, s_none, s_any, s_sdist))

----------------------------------------------------------------------------
(* get_filtered_packages: the listing, the generator, the filters *)

\* One line of the listing.  anchor: the stripped line starts with "<a href";
\* text: what lies between its first ">" and the following "<".
Line(anchor, text) == [anchor |-> anchor, text |-> text]

\* lines 137-139: the link texts of the anchor lines, in order
AnchorTexts(lines) ==
    LET IsAnchor(l) == l.anchor
        kept == SelectSeq(lines, IsAnchor)
    IN  [i \in 1..Len(kept) |-> kept[i].text]

\* lines 143-146 for one l: for ex in extensions, if l.endswith(ex),
\* extensions[ex](l[: -len(ex)])
Constructed(l) ==
    (IF EndsWith(l, ext_whl)
        THEN << WheelPackage(SubSeq(l, 1, Len(l) - Len(ext_whl))) >>
        ELSE << >>)
    \o
    (IF EndsWith(l, ext_targz)
        THEN << SourcePackage(SubSeq(l, 1, Len(l) - Len(ext_targz))) >>
        ELSE << >>)

\* the generator with a constructor call that raises skipped
RECURSIVE PackagesGeneratorSkip(_)
PackagesGeneratorSkip(texts) ==
    IF texts = << >> THEN [raised |-> "", pkgs |-> << >>]
    ELSE
        LET here == Constructed(Head(texts))
            IsGood(r) == r.raised = ""
            good == SelectSeq(here, IsGood)
            rest == PackagesGeneratorSkip(Tail(texts))
        IN  [raised |-> "",
             pkgs |-> [i \in 1..Len(good) |-> good[i].pkg] \o rest.pkgs]

\* lines 142-147 drawn to the end: the constructed packages in listing order,
\* or the exception of the first constructor call that raises
RECURSIVE PackagesGenerator(_)
PackagesGenerator(texts) ==
    IF texts = << >> THEN [raised |-> "", pkgs |-> << >>]
    ELSE
        LET here == Constructed(Head(texts))
            IsRaised(r) == r.raised # ""
            bad == SelectSeq(here, IsRaised)
            rest == PackagesGenerator(Tail(texts))
        IN  IF bad # << >> THEN [raised |-> bad[1].raised, pkgs |-> << >>]
            ELSE IF rest.raised # "" THEN rest
            ELSE [raised |-> "",
                  pkgs |-> [i \in 1..Len(here) |-> here[i].pkg] \o rest.pkgs]

\* line 149: "cp{}{}".format(*x.split(".")); format() raises IndexError
\* when fewer than two parts are passed and ignores the parts past two
pyver_convert(x) ==
    LET parts == Split(x, Dot, -1) IN
    IF Len(parts) < 2 THEN [raised |-> "IndexError", val |-> << >>]
    ELSE [raised |-> "", val |-> s_cp \o parts[1] \o parts[2]]

\* line 152
name_filter(a, x) == x.name = a.name

\* lines 155-159
version_filter(a, x) ==
    IF Len(a.version) = 1
        THEN x.version = a.version[1]
        ELSE StrLeq(a.version[1], x.version) /\ StrLeq(x.version, a.version[2])

\* line 164
python_filter(cpver, x) == x.python = cpver

\* line 167 without its second operand
platform_filter_substring_only(a, x) ==
    Contains(x.platform, a.platform)

\* line 167
platform_filter(a, x) ==
    Contains(x.platform, a.platform) \/ x.platform = s_any

\* lines 151-170: the filters that are set, chained in this order
FilterChain(a, cpver, pkgs) ==
    LET ByName(x) == name_filter(a, x)
        ByVersion(x) == version_filter(a, x)
        ByPython(x) == python_filter(cpver, x)
        ByPlatform(x) == platform_filter(a, x)
        p1 == IF Truthy(a.name) THEN SelectSeq(pkgs, ByName) ELSE pkgs
        p2 == IF a.version # << >> THEN SelectSeq(p1, ByVersion) ELSE p1
        p3 == IF Truthy(a.pyver) THEN SelectSeq(p2, ByPython) ELSE p2
        p4 == IF Truthy(a.platform) THEN SelectSeq(p3, ByPlatform) ELSE p3
    IN  p4

\* lines 137-170 on the lines read: pyver_convert runs when the filters are
\* chained (line 163), before list() draws the first package
FilteredPackages(a, lines) ==
    LET cp == IF Truthy(a.pyver) THEN pyver_convert(a.pyver)
              ELSE [raised |-> "", val |-> << >>]
        gen == PackagesGenerator(AnchorTexts(lines))
    IN  IF cp.raised # "" THEN [raised |-> cp.raised, pkgs |-> << >>]
        ELSE IF gen.raised # "" THEN gen
        ELSE [raised |-> "", pkgs |-> FilterChain(a, cp.val, gen.pkgs)]

----------------------------------------------------------------------------
(* main(): credential resolution, URL, dispatch *)

CredKeys == {"index", "username", "password"}

\* an uncaught exception ends the process with status 1
Uncaught(e) ==
    /\ exc' = e
    /\ exit_status' = << 1 >>

\* lines 279-281 for one credential key, with every value the file gives
MergedOverwrite(a, json, k) ==
    IF k \in DOMAIN json THEN json[k] ELSE a[k]

\* lines 279-281 for one credential key: the file's value only where the
\* field is still None
Merged(a, json, k) ==
    IF k \in DOMAIN json /\ a[k] = None THEN json[k] ELSE a[k]

\* lines 271-281
LoadConfig ==
    /\ pc = "main.config" /\ exit_status = << >>
    /\ IF None \notin {args.password, args.username, args.index}
         THEN /\ pc' = "main.url"
              /\ UNCHANGED <<args, file_read, exc, exit_status>>
         ELSE IF ~config_file.exists
         THEN /\ Uncaught("RuntimeError")
              /\ UNCHANGED <<pc, args, file_read>>
         ELSE LET json == config_file.json IN
                  /\ args' = [args EXCEPT
                                 !.index = Merged(args, json, "index"),
                                 !.username = Merged(args, json, "username"),
                                 !.password = Merged(args, json, "password")]
                  /\ file_read' = TRUE
                  /\ pc' = "main.url"
                  /\ UNCHANGED <<exc, exit_status>>
    /\ UNCHANGED <<argv, config_file, response, packages, sys_calls,
                   requests_made, stdout>>

\* "{}" in an f-string
Format(x) == IF x = None THEN s_None ELSE x

\* lines 283-289; args.func is the function of the command
ComposeUrl ==
    /\ pc = "main.url" /\ exit_status = << >>
    /\ IF args.index = None
         THEN /\ Uncaught("AttributeError")
              /\ UNCHANGED <<pc, args>>
         ELSE IF StartsWith(args.index, URL_PREFIX)
         THEN /\ args' = [args EXCEPT !.url =
                    URL_PREFIX \o Format(args.username) \o s_colon
                    \o Format(args.password) \o s_at
                    \o SubSeq(args.index, Len(URL_PREFIX) + 1, Len(args.index))]
              /\ pc' = IF args.command = "remove" THEN "remove"
                       ELSE "get_filtered_packages"
              /\ UNCHANGED <<exc, exit_status>>
         ELSE /\ Uncaught("RuntimeError")
              /\ UNCHANGED <<pc, args>>
    /\ UNCHANGED <<argv, config_file, file_read, response, packages,
                   sys_calls, requests_made, stdout>>

Request(method, url, ok) == [method |-> method, url |-> url, ok |-> ok]

\* lines 95-103; ok: whether requests.post returned (else it raised)
Remove(ok) ==
    /\ pc = "remove" /\ exit_status = << >>
    /\ requests_made' = Append(requests_made, Request("POST", args.url, ok))
    /\ IF ok
         THEN /\ stdout' = stdout \o << [kind |-> "response", rows |-> << >>],
                                       [kind |-> "response.content", rows |-> << >>] >>
              /\ exit_status' = << 0 >>
              /\ UNCHANGED exc
         ELSE /\ Uncaught("RequestException")
              /\ UNCHANGED stdout
    /\ UNCHANGED <<pc, argv, args, config_file, file_read, response, packages,
                   sys_calls>>

\* lines 128-170, called from package_list (line 175) and download (line 180);
\* ok: whether requests.get returned (else it raised)
GetFilteredPackages(ok) ==
    /\ pc = "get_filtered_packages" /\ exit_status = << >>
    /\ IF Truthy(args.debug)
         THEN ok /\ UNCHANGED requests_made
         ELSE requests_made' = Append(requests_made,
                    Request("GET", args.url \o s_packages, ok))
    /\ LET got == FilteredPackages(args, response) IN
       IF ~ok
         THEN /\ Uncaught("RequestException")
              /\ UNCHANGED <<pc, packages>>
         ELSE IF got.raised # ""
         THEN /\ Uncaught(got.raised)
              /\ UNCHANGED <<pc, packages>>
         ELSE /\ packages' = got.pkgs
              /\ pc' = IF args.command = "list" THEN "print_package_list"
                       ELSE "download"
              /\ UNCHANGED <<exc, exit_status>>
    /\ UNCHANGED <<argv, args, config_file, file_read, response, sys_calls,
                   stdout>>

\* lines 106-125 (called at line 176)
PrintPackageList ==
    /\ pc = "print_package_list" /\ exit_status = << >>
    /\ IF packages = << >>
         THEN /\ stdout' = Append(stdout,
                    [kind |-> "No packages found matching filters", rows |-> << >>])
              /\ exit_status' = << 1 >>
         ELSE /\ stdout' = Append(stdout, [kind |-> "table", rows |-> packages])
              /\ exit_status' = << 0 >>
    /\ UNCHANGED <<pc, argv, args, config_file, file_read, response, packages,
                   sys_calls, requests_made, exc>>

\* lines 182-212: the pip command line of one package
SysCall(url, package) ==
    [index |-> url,
     requirement |-> << package.name, package.version >>,
     python |-> IF StartsWith(package.python, s_cp)
                   THEN SubSeq(package.python, Len(s_cp) + 1, Len(package.python))
                   ELSE None,
     platform |-> IF package.platform # s_any THEN package.platform ELSE None]

\* subprocess.call in place of check_call: the exit code is dropped
call(returncode) == UNCHANGED <<exc, exit_status>>

\* line 216: check_call raises CalledProcessError unless pip exits with 0
check_call(returncode) ==
    IF returncode = 0
        THEN UNCHANGED <<exc, exit_status>>
        ELSE Uncaught("CalledProcessError")

\* lines 195-216, one iteration of the loop; returncode: what pip exits with
DownloadPackage(returncode) ==
    /\ pc = "download" /\ exit_status = << >>
    /\ Len(sys_calls) < Len(packages)
    /\ LET package == packages[Len(sys_calls) + 1] IN
       /\ stdout' = stdout \o << [kind |-> "Downloading package", rows |-> << package >>],
                                 [kind |-> "sys_call", rows |-> << package >>] >>
       /\ sys_calls' = Append(sys_calls,
              [call |-> SysCall(args.url, package), returncode |-> returncode])
    /\ check_call(returncode)
    /\ UNCHANGED <<pc, argv, args, config_file, file_read, response, packages,
                   requests_made>>

\* line 195: the loop is exhausted, download returns and the process ends
DownloadReturn ==
    /\ pc = "download" /\ exit_status = << >>
    /\ Len(sys_calls) = Len(packages)
    /\ exit_status' = << 0 >>
    /\ UNCHANGED <<pc, argv, args, config_file, file_read, response, packages,
                   sys_calls, requests_made, stdout, exc>>

Next ==
    \/ LoadConfig
    \/ ComposeUrl
    \/ \E ok \in BOOLEAN : Remove(ok)
    \/ \E ok \in BOOLEAN : GetFilteredPackages(ok)
    \/ PrintPackageList
    \/ \E returncode \in {0, 1} : DownloadPackage(returncode)
    \/ DownloadReturn

----------------------------------------------------------------------------
(* Runs: the state main() starts from, after parser.parse_args() (line 269) *)

\* lines 220-269: the Namespace of a parsed command line.  An absent optional
\* str is None; an absent --version list is written << >> (it is only ever
\* tested for truth, and nargs="+" makes a given list non-empty).  url is set
\* by main() at line 286.
Namespace(command, index, username, password, debug, name, version, pyver, platform) ==
    [command |-> command, index |-> index, username |-> username,
     password |-> password, debug |-> debug, name |-> name,
     version |-> version, pyver |-> pyver, platform |-> platform,
     url |-> None]

\* the credentials file: absent, or a JSON object over the credential keys
NoFile == [exists |-> FALSE, json |-> << >>]
File(json) == [exists |-> TRUE, json |-> json]

Start(a, cf, lines) ==
    /\ pc = "main.config"
    /\ argv = a
    /\ args = a
    /\ config_file = cf
    /\ file_read = FALSE
    /\ response = lines
    /\ packages = << >>
    /\ sys_calls = << >>
    /\ requests_made = << >>
    /\ stdout = << >>
    /\ exc = ""
    /\ exit_status = << >>

\* all str over cs of length at most n
StrUpTo(cs, n) == UNION {[1..k -> cs] : k \in 0..n}

\* all lists over S of length at most n
ListUpTo(S, n) == UNION {[1..k -> S] : k \in 0..n}

\* the characters of the exhaustive stems: "a" and "-"
StemChars == {97, Dash}

\* Runs that list a one-entry index whose filename is any stem over StemChars
\* with either recognized extension; no filter, credentials by flags.
InitParser ==
    \E stem \in StrUpTo(StemChars, MaxStem), ex \in {ext_whl, ext_targz} :
        Start(Namespace("list", idx_https, s_u, s_p, None, None, << >>, None, None),
              NoFile, << Line(TRUE, stem \o ex) >>)

\* the listing lines of the filter runs
Pool ==
    {Line(TRUE, f) : f \in {f_wheel_linux, f_sdist, f_wheel_qiskit, f_wheel_pure,
                            f_other, f_bad_wheel, f_bad_sdist, f_noname_sdist}}
    \cup {Line(FALSE, f_sdist)}

\* Runs of list and download over every filter specification drawn from the
\* values below and every listing of at most MaxLines lines of Pool;
\* credentials by flags.
InitFilter ==
    \E command \in {"list", "download"},
       name \in {None, s_pytket, s_pytket_qiskit},
       version \in {<< >>, << v_053 >>, << v_052, v_054 >>},
       pyver \in {None, pyver_38, pyver_3, pyver_381},
       platform \in {None, s_linux, s_macos},
       lines \in ListUpTo(Pool, MaxLines) :
        Start(Namespace(command, idx_https, s_u, s_p, None, name, version, pyver,
                        platform),
              NoFile, lines)

\* Runs of every command over every way of giving the credentials: each by
\* flag or not, the file absent or holding any subset of the keys; the
\* listing read over HTTP or from the debug file; no filter.
InitConfig ==
    \E index \in {None, idx_https, idx_http},
       username \in {None, s_u},
       password \in {None, s_p},
       debug \in {None, f_debug},
       cf \in {NoFile} \cup
              {File([k \in K |-> CASE k = "index" -> idx_file
                                   [] k = "username" -> s_fu
                                   [] k = "password" -> s_fp]) :
                   K \in SUBSET CredKeys} :
        \/ \E command \in {"list", "download"} :
              Start(Namespace(command, index, username, password, debug, None,
                              << >>, None, None),
                    cf, << Line(TRUE, f_wheel_linux), Line(TRUE, f_sdist) >>)
        \/ Start(Namespace("remove", index, username, password, debug, s_pytket,
                           v_053, None, None),
                 cf, << >>)

Init == InitParser \/ InitFilter \/ InitConfig

Spec == Init /\ [][Next]_vars

----------------------------------------------------------------------------
(* Vocabulary of the properties, stated without the operations above *)

\* positions of "-" in s
DashPositions(s) == {i \in 1..Len(s) : s[i] = Dash}

\* position of the n-th "-" of s counted from the right (n = 1: the last)
DashFromRight(s, n) ==
    CHOOSE i \in DashPositions(s) :
        Cardinality({j \in DashPositions(s) : j > i}) = n - 1

\* s[i+1 .. j-1]: what lies strictly between positions i and j
Between(s, i, j) == SubSeq(s, i + 1, j - 1)

IsRecognized(l) ==
    l.anchor /\ (EndsWith(l.text, ext_whl) \/ EndsWith(l.text, ext_targz))

\* the listing entries with a recognized extension, in listing order
Recognized(lines) == SelectSeq(lines, IsRecognized)

StemOf(text) ==
    IF EndsWith(text, ext_whl) THEN SubSeq(text, 1, Len(text) - Len(ext_whl))
    ELSE SubSeq(text, 1, Len(text) - Len(ext_targz))

\* a wheel stem with fewer than four "-", or an sdist stem with none
IsMalformed(l) ==
    /\ IsRecognized(l)
    /\ \/ EndsWith(l.text, ext_whl)
          /\ Cardinality(DashPositions(StemOf(l.text))) < 4
       \/ EndsWith(l.text, ext_targz)
          /\ DashPositions(StemOf(l.text)) = {}

HasMalformed(lines) == \E i \in 1..Len(lines) : IsMalformed(lines[i])

NoFilter(a) ==
    a.name = None /\ a.version = << >> /\ a.pyver = None /\ a.platform = None

\* the filter pass has returned its list
FilterReturned == pc \in {"print_package_list", "download"}

\* a <= b in lexicographic code point order
LexLeq(a, b) ==
    \/ Len(a) <= Len(b) /\ SubSeq(b, 1, Len(a)) = a
    \/ \E i \in 1..Len(a) :
          /\ i <= Len(b)
          /\ SubSeq(a, 1, i - 1) = SubSeq(b, 1, i - 1)
          /\ a[i] < b[i]

\* p occurs in s
IsSubstring(p, s) ==
    \E i \in 0..(Len(s) - Len(p)) : SubSeq(s, i + 1, i + Len(p)) = p

Printed(kind) == \E i \in 1..Len(stdout) : stdout[i].kind = kind

----------------------------------------------------------------------------
(* C1 *)

\* the record the wheel grammar assigns to a stem with at least four "-"
WheelRecord(stem) ==
    LET d1 == DashFromRight(stem, 4)
        d2 == DashFromRight(stem, 3)
        d3 == DashFromRight(stem, 2)
        d4 == DashFromRight(stem, 1)
    IN  [name |-> SubSeq(stem, 1, d1 - 1),
         version |-> Between(stem, d1, d2),
         python |-> Between(stem, d2, d3),
         abi |-> Between(stem, d3, d4),
         platform |-> SubSeq(stem, d4 + 1, Len(stem)),
         type |-> s_wheel]

\* C1: when an unfiltered listing has been parsed, every ".whl" entry whose
\* stem has at least four "-" gave the record whose version, python tag, abi
\* tag and platform are the last four "-"-delimited tokens in that order,
\* whose name is the whole prefix before them and whose type is "wheel".
C1_WheelParse ==
    (FilterReturned /\ NoFilter(args)) =>
        LET entries == Recognized(response) IN
        /\ Len(packages) = Len(entries)
        /\ \A i \in 1..Len(entries) :
              LET text == entries[i].text IN
              (EndsWith(text, ext_whl)
                 /\ Cardinality(DashPositions(StemOf(text))) >= 4)
              => packages[i] = WheelRecord(StemOf(text))

\* a wheel whose name has an embedded "-" and whose tokens are all non-empty
\* has been parsed
C1_Witness ==
    /\ FilterReturned /\ NoFilter(args)
    /\ \E i \in 1..Len(packages) :
          /\ packages[i].type = s_wheel
          /\ \E j \in 2..(Len(packages[i].name) - 1) :
                /\ packages[i].name[j] = Dash
                /\ packages[i].name[j - 1] # Dash
                /\ packages[i].name[j + 1] # Dash
          /\ packages[i].version # << >>
          /\ packages[i].python # << >>
          /\ packages[i].abi # << >>
          /\ packages[i].platform # << >>

----------------------------------------------------------------------------
(* C2 *)

\* the record the sdist grammar assigns to a stem with at least one "-"
SourceRecord(stem) ==
    LET d == DashFromRight(stem, 1) IN
    [name |-> SubSeq(stem, 1, d - 1),
     version |-> SubSeq(stem, d + 1, Len(stem)),
     python |-> s_py3, abi |-> s_none, platform |-> s_any, type |-> s_sdist]

\* C2: when an unfiltered listing has been parsed, every ".tar.gz" entry
\* whose stem has at least one "-" gave the record whose version is what
\* follows the rightmost "-", whose name is everything before it, and whose
\* python tag, abi tag, platform and type are "py3", "none", "any", "sdist".
C2_SourceParse ==
    (FilterReturned /\ NoFilter(args)) =>
        LET entries == Recognized(response) IN
        /\ Len(packages) = Len(entries)
        /\ \A i \in 1..Len(entries) :
              LET text == entries[i].text IN
              (EndsWith(text, ext_targz) /\ DashPositions(StemOf(text)) # {})
              => packages[i] = SourceRecord(StemOf(text))

\* an sdist whose name has an embedded "-" has been parsed
C2_Witness ==
    /\ FilterReturned /\ NoFilter(args)
    /\ \E i \in 1..Len(packages) :
          /\ packages[i].type = s_sdist
          /\ \E j \in 2..(Len(packages[i].name) - 1) :
                /\ packages[i].name[j] = Dash
                /\ packages[i].name[j - 1] # Dash
                /\ packages[i].name[j + 1] # Dash
          /\ packages[i].version # << >>

----------------------------------------------------------------------------
(* C3 *)

\* "cp" + major + minor of the --pyver values that have both
CpTag(pyver) ==
    CASE pyver = pyver_38 -> s_cp38
      [] pyver = pyver_381 -> s_cp38

\* x satisfies every filter that is set in a
Matches(a, x) ==
    /\ a.name # None => x.name = a.name
    /\ Len(a.version) = 1 => x.version = a.version[1]
    /\ Len(a.version) = 2 =>
          LexLeq(a.version[1], x.version) /\ LexLeq(x.version, a.version[2])
    /\ a.pyver # None => x.python = CpTag(a.pyver)
    /\ a.platform # None =>
          IsSubstring(a.platform, x.platform) \/ x.platform = s_any

\* C3: the list the filter pass returns is the listing's parsed records that
\* satisfy all the set filters together, in listing order, each once; with
\* no filter set it is every parsed record.
C3_FilterExact ==
    FilterReturned =>
        LET parsed == PackagesGenerator(AnchorTexts(response)).pkgs
            Keep(x) == Matches(args, x)
        IN  /\ packages = SelectSeq(parsed, Keep)
            /\ NoFilter(args) => packages = parsed

\* the listing of the wheel and the sdist of pytket 0.5.3, filtered by name
\* "pytket" and pyver "3.8", has returned the wheel alone
C3_Witness ==
    /\ FilterReturned
    /\ response = << Line(TRUE, f_wheel_linux), Line(TRUE, f_sdist) >>
    /\ args.name = s_pytket /\ args.pyver = pyver_38
    /\ Len(packages) = 1
    /\ packages[1].python = s_cp38 /\ packages[1].type = s_wheel

----------------------------------------------------------------------------
(* C4 *)

\* C4: a command whose filter pass returned no record prints "No packages
\* found matching filters" and ends with status 1 in its next step, never
\* with a table and never with status 0.
C4_EmptyResultExitsNonZero ==
    [][(FilterReturned /\ exit_status = << >> /\ packages = << >>) =>
          /\ exit_status' = << 1 >>
          /\ \E i \in 1..Len(stdout') :
                stdout'[i].kind = "No packages found matching filters"
          /\ \A i \in 1..Len(stdout') : stdout'[i].kind # "table"]_vars

----------------------------------------------------------------------------
(* C5 *)

\* k is given by its flag or by the credentials file
Given(k) ==
    \/ argv[k] # None
    \/ config_file.exists /\ k \in DOMAIN config_file.json

\* C5: a run in which some credential field is given neither by flag nor by
\* the file makes no HTTP request and no pip invocation.
C5_NoCallWithoutCredentials ==
    (\E k \in CredKeys : ~Given(k)) =>
        requests_made = << >> /\ sys_calls = << >>

----------------------------------------------------------------------------
(* C6 *)

\* C6: a credential field given by flag keeps the flag's value; a field
\* differs from the command line only if no flag gave it, and then it holds
\* the file's value; with all three given by flags the file is never read.
C6_FlagsNeverOverwritten ==
    /\ \A k \in CredKeys :
          /\ argv[k] # None => args[k] = argv[k]
          /\ args[k] # argv[k] =>
                /\ argv[k] = None
                /\ file_read
                /\ k \in DOMAIN config_file.json
                /\ args[k] = config_file.json[k]
    /\ (\A k \in CredKeys : argv[k] # None) => ~file_read

\* the file, holding all three keys, was read with the username given by
\* flag and the password not: the username is the flag's, the password the
\* file's
C6_Witness ==
    /\ file_read
    /\ DOMAIN config_file.json = CredKeys
    /\ argv.username = s_u /\ config_file.json["username"] = s_fu
    /\ args.username = s_u
    /\ argv.password = None /\ args.password = s_fp

----------------------------------------------------------------------------
(* C7 *)

\* C7: over a listing without malformed filenames the filter pass never ends
\* in an exception raised by the parsing and filtering code.
C7_FilterPassNeverRaises ==
    ~HasMalformed(response) =>
        ~(pc = "get_filtered_packages" /\ exc \in {"IndexError", "TypeError"})

----------------------------------------------------------------------------
(* C8 *)

\* C8: every field of every package record parsed from the listing is
\* non-empty.
C8_FieldsNonEmpty ==
    \A i \in 1..Len(packages) :
        /\ packages[i].name # << >>
        /\ packages[i].version # << >>
        /\ packages[i].python # << >>
        /\ packages[i].abi # << >>
        /\ packages[i].platform # << >>
        /\ packages[i].type # << >>

----------------------------------------------------------------------------
(* C9 *)

\* C9: the pip invocations made so far are, position by position, those of
\* a prefix of the filtered list; none is made before the filter pass has
\* returned (and, unless the debug file replaces it, the listing was
\* fetched); every invocation but the last returned 0; a failed invocation
\* has ended the run with an error; and a download that ends without error
\* has made exactly one invocation per filtered record.
C9_SequentialDownloads ==
    /\ Len(sys_calls) <= Len(packages)
    /\ \A i \in 1..Len(sys_calls) :
          /\ sys_calls[i].call.requirement
                = << packages[i].name, packages[i].version >>
          /\ i < Len(sys_calls) => sys_calls[i].returncode = 0
          /\ sys_calls[i].returncode # 0 =>
                exit_status = << 1 >> /\ exc = "CalledProcessError"
    /\ sys_calls # << >> =>
          /\ pc = "download"
          /\ args.debug = None =>
                /\ Len(requests_made) = 1
                /\ requests_made[1].method = "GET" /\ requests_made[1].ok
    /\ (pc = "download" /\ exit_status = << 0 >>) =>
          /\ Len(sys_calls) = Len(packages)
          /\ \A i \in 1..Len(sys_calls) : sys_calls[i].returncode = 0

\* a download of two records has ended with the second invocation failing
\* after the first returned 0
C9_Witness ==
    /\ pc = "download" /\ exit_status = << 1 >>
    /\ Len(packages) >= 2
    /\ Len(sys_calls) = 2
    /\ sys_calls[1].returncode = 0 /\ sys_calls[2].returncode # 0
    /\ sys_calls[1].call.requirement # sys_calls[2].call.requirement

----------------------------------------------------------------------------
(* C10 *)

\* C10: a list or download run over a listing with a malformed entry (a
\* ".whl" stem with fewer than four "-", a ".tar.gz" stem with none) never
\* gets a list back from the filter pass: it prints no table and makes no
\* pip invocation, and once the listing has been read the run has ended
\* with status 1 on an uncaught exception, which is the parser's TypeError
\* or IndexError.
C10_MalformedAborts ==
    (args.command \in {"list", "download"} /\ HasMalformed(response)) =>
        /\ ~FilterReturned
        /\ sys_calls = << >>
        /\ ~Printed("table")
        /\ (pc = "get_filtered_packages" /\ exit_status # << >>) =>
              /\ exit_status = << 1 >>
              /\ exc # ""
              /\ (requests_made # << >> /\ requests_made[1].ok) =>
                    exc \in {"TypeError", "IndexError"}

\* a listing of a wheel named pytket and a malformed wheel entry not named
\* pytket, filtered by name "pytket", has ended the run with a TypeError
C10_Witness ==
    /\ response = << Line(TRUE, f_wheel_linux), Line(TRUE, f_bad_wheel) >>
    /\ args.name = s_pytket
    /\ pc = "get_filtered_packages"
    /\ exit_status = << 1 >> /\ exc = "TypeError"
    /\ packages = << >> /\ sys_calls = << >> /\ stdout = << >>

====
